---- MODULE Spec2Model ----
(***************************************************************************)
(* Lightning-strike / work-order correlation (src/main.py).                *)
(*                                                                         *)
(* Units.  Latitudes and longitudes are whole degrees.  Time is counted in *)
(* whole hours; a timestamp is a wall-clock reading together with its      *)
(* UTC offset (or no offset at all, a tz-naive value).  geopy's geodesic   *)
(* is a library primitive: it is abstracted to a metric on the degree grid *)
(* (see geodesic_miles).                                                   *)
(***************************************************************************)
EXTENDS Integers, Sequences, FiniteSets

VARIABLES
    pc,                 \* position of the running function / of main
    sites_df,           \* the sites argument (rows of the site query)
    strikes_df,         \* the strikes argument (rows of the strike query)
    work_orders,        \* the list returned by the work-order API
    radii,              \* the radii argument
    clock,              \* the UTC wall clock, in hours
    site_i,             \* index of the next row of `for _, site in sites_df.iterrows()`
    ws,                 \* the worksheet of create_detailed_report, one block per site
    cws,                \* the worksheet of create_correlation_report, one block per site
    wo_df,              \* create_correlation_report's wo_df after the lookback filter
    cutoff_date,        \* create_correlation_report's cutoff_date
    all_strikes,        \* the value returned by the last get_strikes_for_site call
    sites_with_strikes, \* create_detailed_report's counter and return value
    sites_with_data,    \* create_correlation_report's counter and return value
    emails              \* the subjects of the emails sent so far

vars == <<pc, sites_df, strikes_df, work_orders, radii, clock, site_i, ws, cws,
          wo_df, cutoff_date, all_strikes, sites_with_strikes, sites_with_data,
          emails>>

\* The arguments of the running function.
inputs == <<sites_df, strikes_df, work_orders, radii>>

----------------------------------------------------------------------------
(* Bounds of the model *)

MaxStrikes == 2
MaxMatchStrikes == 3
MaxSites == 2
MaxOrders == 2
MaxTicks == 1

(* Program constants *)

LookbackDays == 14

\* The clock reading at which a run starts: the lookback cutoff is then
\* instant 664.
Now0 == 664 + 24 * LookbackDays

----------------------------------------------------------------------------
(* Values *)

SeqUpTo(S, n) == UNION {[1..k -> S] : k \in 0..n}

Range(s) == {s[k] : k \in 1..Len(s)}

Abs(x) == IF x < 0 THEN -x ELSE x

\* A cell of a coordinate column: a number, or something float() rejects.
Num(x) == [isnum |-> TRUE, v |-> x]
NotNum == [isnum |-> FALSE, v |-> 0]

\* float(x): defined on numeric cells only; raises ValueError/TypeError otherwise.
float_raises(x) == ~x.isnum
float(x) == x.v

\* A timestamp: tz-aware (wall clock + UTC offset) or tz-naive (wall clock only).
Aware(wall, off) == [wall |-> wall, aware |-> TRUE, off |-> off]
Naive(wall) == [wall |-> wall, aware |-> FALSE, off |-> 0]

\* The instant a timestamp denotes; Python orders tz-aware timestamps by it,
\* and tz-naive ones by their wall clock.
Instant(ts) == IF ts.aware THEN ts.wall - ts.off ELSE ts.wall

\* Faulty variant: the strike's wall clock is compared without converting it to UTC.
to_utc_keep_wall(ts) == Aware(ts.wall, 0)

\* main.py 381-384 and 421-424: a naive timestamp is taken as UTC, an aware
\* one is converted to UTC.
to_utc(ts) ==
    IF ~ts.aware THEN Aware(ts.wall, 0)
    ELSE Aware(ts.wall - ts.off, 0)

\* pd.to_datetime(..., format='ISO8601', utc=True): same normalisation.
to_datetime_utc(x) ==
    IF ~x.aware THEN Aware(x.wall, 0)
    ELSE Aware(x.wall - x.off, 0)

\* pd.Timedelta(days=d), in hours.
Timedelta(days) == days * 24

----------------------------------------------------------------------------
(* validate_coordinates, main.py 149-158 *)

\* Faulty variant: the upper latitude bound is not checked.
validate_coordinates_no_upper_lat(lat, lon) ==
    IF float_raises(lat) \/ float_raises(lon) THEN FALSE
    ELSE /\ -90 <= float(lat)
         /\ -180 <= float(lon) /\ float(lon) <= 180

validate_coordinates(lat, lon) ==
    IF float_raises(lat) \/ float_raises(lon) THEN FALSE
    ELSE /\ -90 <= float(lat) /\ float(lat) <= 90
         /\ -180 <= float(lon) /\ float(lon) <= 180

\* geodesic(a, b).miles, main.py 228.  Abstraction of the library call: a
\* metric on the degree grid, 69 miles per degree along either axis.
geodesic_miles(lat1, lon1, lat2, lon2) ==
    69 * (Abs(lat1 - lat2) + Abs(lon1 - lon2))

----------------------------------------------------------------------------
(* get_strikes_for_site, main.py 200-243 *)

\* The dictionary appended for one strike row (main.py 231-237).
StrikeDict(site, strike) ==
    [latitude  |-> float(strike.Latitude),
     longitude |-> float(strike.Longitude),
     timestamp |-> strike.Timestamp,
     distance  |-> geodesic_miles(float(site.Latitude), float(site.Longitude),
                                  float(strike.Latitude), float(strike.Longitude)),
     peakamp   |-> strike.PeakAmp]

\* Faulty variant: the radius test is strict.
strike_in_radius_strict(site, strike, radius_miles) ==
    IF float_raises(strike.Latitude) \/ float_raises(strike.Longitude) THEN FALSE
    ELSE IF ~validate_coordinates(strike.Latitude, strike.Longitude) THEN FALSE
    ELSE geodesic_miles(float(site.Latitude), float(site.Longitude),
                        float(strike.Latitude), float(strike.Longitude)) < radius_miles

\* Faulty variant: a strike's coordinates are not validated.
strike_in_radius_unvalidated(site, strike, radius_miles) ==
    IF float_raises(strike.Latitude) \/ float_raises(strike.Longitude) THEN FALSE
    ELSE geodesic_miles(float(site.Latitude), float(site.Longitude),
                        float(strike.Latitude), float(strike.Longitude)) <= radius_miles

\* One iteration of the strike loop (main.py 219-240): TRUE iff the row is appended.
strike_in_radius(site, strike, radius_miles) ==
    IF float_raises(strike.Latitude) \/ float_raises(strike.Longitude) THEN FALSE
    ELSE IF ~validate_coordinates(strike.Latitude, strike.Longitude) THEN FALSE
    ELSE geodesic_miles(float(site.Latitude), float(site.Longitude),
                        float(strike.Latitude), float(strike.Longitude)) <= radius_miles

\* strikes_in_radius after the loop, in row order (main.py 217-240).
RECURSIVE strikes_in_radius(_, _, _)
strikes_in_radius(site, strikes, radius_miles) ==
    IF strikes = <<>> THEN <<>>
    ELSE LET rest == strikes_in_radius(site, SubSeq(strikes, 1, Len(strikes) - 1),
                                       radius_miles)
             last == strikes[Len(strikes)]
         IN IF strike_in_radius(site, last, radius_miles)
            THEN Append(rest, StrikeDict(site, last))
            ELSE rest

\* Faulty variant: an element is inserted before the elements that compare equal to it.
insert_by_timestamp_unstable(sorted_seq, x) ==
    LET k == Cardinality({j \in 1..Len(sorted_seq) :
                            Instant(sorted_seq[j].timestamp) < Instant(x.timestamp)})
    IN SubSeq(sorted_seq, 1, k) \o <<x>> \o SubSeq(sorted_seq, k + 1, Len(sorted_seq))

\* Insertion into a list sorted by timestamp, after every element that does
\* not compare greater: what a stable sort does with the next element.
insert_by_timestamp(sorted_seq, x) ==
    LET k == Cardinality({j \in 1..Len(sorted_seq) :
                            Instant(sorted_seq[j].timestamp) <= Instant(x.timestamp)})
    IN SubSeq(sorted_seq, 1, k) \o <<x>> \o SubSeq(sorted_seq, k + 1, Len(sorted_seq))

\* sorted(strikes_in_radius, key=lambda x: x['timestamp']), main.py 243.
RECURSIVE sorted_by_timestamp(_)
sorted_by_timestamp(s) ==
    IF s = <<>> THEN <<>>
    ELSE insert_by_timestamp(sorted_by_timestamp(SubSeq(s, 1, Len(s) - 1)), s[Len(s)])

get_strikes_for_site(site_row, strikes, radius_miles) ==
    IF float_raises(site_row.Latitude) \/ float_raises(site_row.Longitude) THEN <<>>
    ELSE IF ~validate_coordinates(site_row.Latitude, site_row.Longitude) THEN <<>>
    ELSE sorted_by_timestamp(strikes_in_radius(site_row, strikes, radius_miles))

----------------------------------------------------------------------------
(* Worksheets.  A worksheet is its header row, one block of rows per reported
   site, and whether wb.save has written it. *)

NewWorkbook == [header |-> <<>>, rows |-> <<>>, saved |-> FALSE]

----------------------------------------------------------------------------
(* Inputs of the get_strikes_for_site specification *)

Site(name, lat, lon, fac) ==
    [SiteName |-> name, Latitude |-> lat, Longitude |-> lon, facilityid |-> fac]

Strike(lat, lon, ts, amp) ==
    [Latitude |-> lat, Longitude |-> lon, Timestamp |-> ts, PeakAmp |-> amp]

MatchSites ==
    { Site("A", Num(30), Num(-95), "F1"),
      Site("B", Num(91), Num(-95), "F1"),
      Site("C", Num(30), Num(-181), "F2"),
      Site("D", NotNum, Num(-95), "F2") }

\* Offsets -6 and -5 are Central standard and daylight time.
MatchStrikes ==
    { Strike(Num(30), Num(-95), Aware(694, -6), 10),    \* at site A, instant 700
      Strike(Num(30), Num(-95), Aware(695, -5), 20),    \* at site A, instant 700
      Strike(Num(31), Num(-95), Aware(693, -6), 30),    \* 69 miles, instant 699
      Strike(Num(31), Num(-94), Aware(695, -6), 40),    \* 138 miles, instant 701
      Strike(Num(91), Num(-95), Aware(690, -6), 50),    \* latitude out of range
      Strike(Num(-91), Num(-95), Aware(690, -6), 51),   \* latitude out of range
      Strike(Num(30), Num(181), Aware(690, -6), 52),    \* longitude out of range
      Strike(Num(30), NotNum, Aware(690, -6), 60) }     \* not numeric

MatchRadii == {0, 1, 69, 25000}

InitMatch ==
    /\ pc = "call"
    /\ sites_df \in [1..1 -> MatchSites]
    /\ strikes_df \in SeqUpTo(MatchStrikes, MaxMatchStrikes)
    /\ radii \in [1..1 -> MatchRadii]
    /\ work_orders = <<>>
    /\ clock = 0
    /\ site_i = 1
    /\ ws = NewWorkbook
    /\ cws = NewWorkbook
    /\ wo_df = <<>>
    /\ cutoff_date = 0
    /\ all_strikes = <<>>
    /\ sites_with_strikes = 0
    /\ sites_with_data = 0
    /\ emails = <<>>

\* One call get_strikes_for_site(site, strikes_df, radius).
CallGetStrikes ==
    /\ pc = "call"
    /\ all_strikes' = get_strikes_for_site(sites_df[1], strikes_df, radii[1])
    /\ pc' = "returned"
    /\ UNCHANGED <<emails, inputs, clock, site_i, ws, cws, wo_df, cutoff_date,
                   sites_with_strikes, sites_with_data>>

NextMatch == CallGetStrikes

SpecMatch == InitMatch /\ [][NextMatch]_vars

----------------------------------------------------------------------------
(* create_detailed_report, main.py 246-324 *)

\* The rows written for one site (main.py 272-294): the summary row with its
\* count columns, and one listing of strike rows per reported radius.
DetailedBlock(site, strikes_1mi) ==
    [SiteName  |-> site.SiteName,
     Latitude  |-> site.Latitude,
     Longitude |-> site.Longitude,
     counts    |-> <<Len(strikes_1mi)>>,
     listings  |-> <<strikes_1mi>>]

\* main.py 251-260: a fresh workbook and the header row, which reads radii[0]
\* and so raises IndexError on an empty list.
DetailedBegin ==
    /\ pc = "detailed"
    /\ IF radii = <<>>
       THEN /\ pc' = "raised"
            /\ UNCHANGED <<ws, site_i, sites_with_strikes>>
       ELSE /\ ws' = [NewWorkbook EXCEPT !.header = <<radii[1]>>]
            /\ sites_with_strikes' = 0
            /\ site_i' = 1
            /\ pc' = "detailed_loop"
    /\ UNCHANGED <<emails, inputs, clock, cws, wo_df, cutoff_date, all_strikes, sites_with_data>>

\* One iteration of `for _, site in sites_df.iterrows()` (main.py 262-294).
DetailedSite ==
    /\ pc = "detailed_loop"
    /\ site_i <= Len(sites_df)
    /\ LET site == sites_df[site_i]
           strikes_1mi == get_strikes_for_site(site, strikes_df, radii[1])
       IN /\ all_strikes' = strikes_1mi
          /\ IF strikes_1mi = <<>>
             THEN UNCHANGED <<ws, sites_with_strikes>>
             ELSE /\ sites_with_strikes' = sites_with_strikes + 1
                  /\ ws' = [ws EXCEPT !.rows = Append(@, DetailedBlock(site, strikes_1mi))]
    /\ site_i' = site_i + 1
    /\ UNCHANGED <<emails, pc, inputs, clock, cws, wo_df, cutoff_date, sites_with_data>>

\* After the loop: wb.save(filename) and return (main.py 296-324).
DetailedSave ==
    /\ pc = "detailed_loop"
    /\ site_i > Len(sites_df)
    /\ ws' = [ws EXCEPT !.saved = TRUE]
    /\ pc' = "detailed_done"
    /\ UNCHANGED <<emails, inputs, clock, site_i, cws, wo_df, cutoff_date, all_strikes,
                   sites_with_strikes, sites_with_data>>

(* Inputs of the create_detailed_report specification *)

DetailedSites ==
    { Site("A", Num(30), Num(-95), "F1"),
      Site("B", Num(31), Num(-95), "F2"),
      Site("C", Num(91), Num(-95), "F1"),
      Site("D", Num(30), NotNum, "F2") }

DetailedStrikes ==
    { Strike(Num(30), Num(-95), Aware(694, -6), 10),    \* at A, 69 miles from B
      Strike(Num(31), Num(-95), Aware(693, -6), 30),    \* at B, 69 miles from A
      Strike(Num(31), Num(-94), Aware(695, -6), 40),    \* 138 miles from A, 69 from B
      Strike(Num(91), Num(-95), Aware(690, -6), 50) }   \* latitude out of range

RadiiLists == { <<>>, <<1>>, <<69>>, <<1, 69>>, <<69, 1>> }

InitDetailed ==
    /\ pc = "detailed"
    /\ sites_df \in SeqUpTo(DetailedSites, MaxSites)
    /\ strikes_df \in SeqUpTo(DetailedStrikes, MaxStrikes)
    /\ radii \in RadiiLists
    /\ work_orders = <<>>
    /\ clock = 0
    /\ site_i = 1
    /\ ws = NewWorkbook
    /\ cws = NewWorkbook
    /\ wo_df = <<>>
    /\ cutoff_date = 0
    /\ all_strikes = <<>>
    /\ sites_with_strikes = 0
    /\ sites_with_data = 0
    /\ emails = <<>>

NextDetailed == DetailedBegin \/ DetailedSite \/ DetailedSave

SpecDetailed == InitDetailed /\ [][NextDetailed]_vars

----------------------------------------------------------------------------
(* create_correlation_report, main.py 339-495 *)

WorkOrder(number, fac, created, desc) ==
    [woNumber |-> number, facilityID |-> fac, createdDateTime |-> created,
     workOrderDesc |-> desc]

\* A description is a sequence of pieces of text; `phrase in str(desc)` holds
\* iff one of the pieces is the phrase.
NoisePhrase == "Could not send Truck Unloading tags to "

\* main.py 432
is_excluded(wo) ==
    \E k \in 1..Len(wo.workOrderDesc) : wo.workOrderDesc[k] = NoisePhrase

\* main.py 352-353: createdDateTime parsed and normalised to UTC.
parse_created(orders) ==
    [k \in 1..Len(orders) |->
        [orders[k] EXCEPT !.createdDateTime = to_datetime_utc(@)]]

\* main.py 357: wo_df[wo_df['createdDateTime'] >= cutoff_date]
lookback_filter(orders, cutoff) ==
    SelectSeq(orders, LAMBDA w : Instant(w.createdDateTime) >= cutoff)

\* Faulty variant: the lookback window is applied again for each site, with the clock
\* as it stands then.
site_work_orders_reread(site) ==
    SelectSeq(wo_df, LAMBDA w :
        /\ w.facilityID = site.facilityid
        /\ Instant(w.createdDateTime) >= clock - Timedelta(LookbackDays))

\* main.py 374: wo_df[wo_df['facilityID'] == site['facilityid']]
site_work_orders(site) ==
    SelectSeq(wo_df, LAMBDA w : w.facilityID = site.facilityid)

\* Faulty variant: the comparison is turned around, an order created at or
\* before the strike counts.
has_matching_orders_flipped(strike, site_orders) ==
    LET strike_time == to_utc(strike.timestamp)
    IN \E k \in 1..Len(site_orders) :
          Instant(site_orders[k].createdDateTime) <= Instant(strike_time)

\* main.py 380-389: the strike has an order created at or after it.
has_matching_orders(strike, site_orders) ==
    LET strike_time == to_utc(strike.timestamp)
    IN \E k \in 1..Len(site_orders) :
          Instant(site_orders[k].createdDateTime) >= Instant(strike_time)

\* main.py 378-390
strikes_with_orders(strikes, site_orders) ==
    SelectSeq(strikes, LAMBDA strike : has_matching_orders(strike, site_orders))

\* Faulty variant: the latest matched strike is taken.
min_timestamp_latest(strikes) ==
    LET first == CHOOSE k \in 1..Len(strikes) :
                    /\ \A j \in 1..Len(strikes) :
                          Instant(strikes[k].timestamp) >= Instant(strikes[j].timestamp)
                    /\ \A j \in 1..(k - 1) :
                          Instant(strikes[j].timestamp) # Instant(strikes[k].timestamp)
    IN strikes[first].timestamp

\* min(strike['timestamp'] for strike in strikes), main.py 420: the first of
\* the smallest timestamps.
min_timestamp(strikes) ==
    LET first == CHOOSE k \in 1..Len(strikes) :
                    /\ \A j \in 1..Len(strikes) :
                          Instant(strikes[k].timestamp) <= Instant(strikes[j].timestamp)
                    /\ \A j \in 1..(k - 1) :
                          Instant(strikes[j].timestamp) # Instant(strikes[k].timestamp)
    IN strikes[first].timestamp

\* main.py 426-428
relevant_orders(site_orders, earliest_strike) ==
    SelectSeq(site_orders, LAMBDA w :
        Instant(w.createdDateTime) >= Instant(earliest_strike))

\* wo['createdDateTime'].tz_convert('America/Chicago'), main.py 435 (standard time).
tz_convert_chicago(ts) == Aware(Instant(ts) - 6, -6)

\* The row written for one displayed work order (main.py 435-444).
OrderRow(wo) ==
    [woNumber |-> wo.woNumber,
     workOrderDesc |-> wo.workOrderDesc,
     created_time |-> tz_convert_chicago(wo.createdDateTime)]

\* main.py 430-444: the rows of the orders that are not filtered out.
order_rows(orders) ==
    LET kept == SelectSeq(orders, LAMBDA w : ~is_excluded(w))
    IN [k \in 1..Len(kept) |-> OrderRow(kept[k])]

\* The rows written for one site (main.py 397-465).
CorrelationBlock(site, matched, site_orders) ==
    LET earliest_strike == to_utc(min_timestamp(matched))
    IN [SiteName  |-> site.SiteName,
        Latitude  |-> site.Latitude,
        Longitude |-> site.Longitude,
        counts    |-> <<Len(matched)>>,
        strikes   |-> matched,
        orders    |-> order_rows(relevant_orders(site_orders, earliest_strike))]

\* main.py 345-361: the work orders are parsed and cut to the lookback window
\* with one reading of the clock, then the header row is written.
\* pd.DataFrame([]) has no createdDateTime column (KeyError); radii[0] of an
\* empty list raises IndexError.
CorrelationBegin ==
    /\ pc = "corr"
    /\ IF work_orders = <<>>
       THEN /\ pc' = "raised"
            /\ UNCHANGED <<cws, wo_df, cutoff_date, site_i, sites_with_data>>
       ELSE /\ cutoff_date' = clock - Timedelta(LookbackDays)
            /\ wo_df' = lookback_filter(parse_created(work_orders),
                                        clock - Timedelta(LookbackDays))
            /\ sites_with_data' = 0
            /\ IF radii = <<>>
               THEN /\ pc' = "raised"
                    /\ UNCHANGED <<cws, site_i>>
               ELSE /\ cws' = [NewWorkbook EXCEPT !.header = <<radii[1]>>]
                    /\ site_i' = 1
                    /\ pc' = "corr_loop"
    /\ UNCHANGED <<emails, inputs, clock, ws, all_strikes, sites_with_strikes>>

\* One iteration of `for _, site in sites_df.iterrows()` (main.py 369-465).
CorrelationSite ==
    /\ pc = "corr_loop"
    /\ site_i <= Len(sites_df)
    /\ LET site == sites_df[site_i]
           strikes == get_strikes_for_site(site, strikes_df, radii[1])
           site_orders == site_work_orders(site)
           matched == strikes_with_orders(strikes, site_orders)
       IN /\ all_strikes' = strikes
          /\ IF strikes = <<>> \/ site_orders = <<>> \/ matched = <<>>
             THEN UNCHANGED <<cws, sites_with_data>>
             ELSE /\ sites_with_data' = sites_with_data + 1
                  /\ cws' = [cws EXCEPT !.rows =
                                Append(@, CorrelationBlock(site, matched, site_orders))]
    /\ site_i' = site_i + 1
    /\ UNCHANGED <<emails, pc, inputs, clock, ws, wo_df, cutoff_date, sites_with_strikes>>

\* After the loop: wb.save(filename) and return (main.py 467-495).
CorrelationSave ==
    /\ pc = "corr_loop"
    /\ site_i > Len(sites_df)
    /\ cws' = [cws EXCEPT !.saved = TRUE]
    /\ pc' = "corr_done"
    /\ UNCHANGED <<emails, inputs, clock, site_i, ws, wo_df, cutoff_date, all_strikes,
                   sites_with_strikes, sites_with_data>>

\* Time passes while the report is being built.
Tick ==
    /\ pc \in {"corr", "corr_loop"}
    /\ clock < Now0 + MaxTicks
    /\ clock' = clock + 1
    /\ UNCHANGED <<emails, pc, inputs, site_i, ws, cws, wo_df, cutoff_date, all_strikes,
                   sites_with_strikes, sites_with_data>>

(* Inputs of the create_correlation_report specification.  A datetime column
   is tz-aware throughout or tz-naive throughout. *)

CorrelationSites ==
    { Site("A", Num(30), Num(-95), "F1"),
      Site("B", Num(30), Num(-95), "F2") }

AwareStrikes ==
    { Strike(Num(30), Num(-95), Aware(594, -6), 10),    \* at A and B, instant 600
      Strike(Num(30), Num(-95), Aware(661, -5), 20),    \* at A and B, instant 666
      Strike(Num(31), Num(-95), Aware(594, -6), 30) }   \* 69 miles away, instant 600

NaiveStrikes ==
    { Strike(Num(30), Num(-95), Naive(666), 40) }       \* at A and B, instant 666

\* With the clock at Now0 the cutoff is instant 664.
CorrelationOrders ==
    { WorkOrder(1, "F1", Aware(658, -6), <<"Lightning damage">>),     \* instant 664
      WorkOrder(2, "F1", Naive(900), <<"PLC: ", NoisePhrase, "HMI">>),
      WorkOrder(3, "F2", Naive(800), <<"Could not send Truck Unloading tags">>) }

InitCorrelation ==
    /\ pc = "corr"
    /\ sites_df \in SeqUpTo(CorrelationSites, MaxSites)
    /\ strikes_df \in SeqUpTo(AwareStrikes, MaxStrikes) \cup SeqUpTo(NaiveStrikes, MaxStrikes)
    /\ work_orders \in SeqUpTo(CorrelationOrders, MaxOrders)
    /\ radii \in {<<>>, <<1>>}
    /\ clock = Now0
    /\ site_i = 1
    /\ ws = NewWorkbook
    /\ cws = NewWorkbook
    /\ wo_df = <<>>
    /\ cutoff_date = 0
    /\ all_strikes = <<>>
    /\ sites_with_strikes = 0
    /\ sites_with_data = 0
    /\ emails = <<>>

NextCorrelation == CorrelationBegin \/ CorrelationSite \/ CorrelationSave \/ Tick

SpecCorrelation == InitCorrelation /\ [][NextCorrelation]_vars

----------------------------------------------------------------------------
(* main, main.py 497-614 *)

DetailedSubject == "Weekly Lightning Strike Report"
CorrelationSubject == "Weekly Lightning Strike and Work Order Correlation Report"
FailedSubject == "Script - Failed"

MainSites ==
    { Site("A", Num(30), Num(-95), "F1"),
      Site("C", Num(91), Num(-95), "F1"),
      Site("D", NotNum, Num(-95), "F1") }

MainStrikes ==
    { Strike(Num(30), Num(-95), Aware(694, -6), 10),    \* at A, instant 700
      Strike(Num(91), Num(-95), Aware(694, -6), 20) }   \* at C, latitude out of range

MainOrders ==
    { WorkOrder(1, "F1", Naive(900), <<"Lightning damage">>) }

\* main.py 516-523: the sites and the 7-day strikes are loaded and
\* create_detailed_report is called with radii [1.0].
LoadData7d ==
    /\ pc = "main"
    /\ sites_df' \in SeqUpTo(MainSites, MaxSites)
    /\ strikes_df' \in SeqUpTo(MainStrikes, MaxStrikes)
    /\ radii' = <<1>>
    /\ pc' = "detailed"
    /\ UNCHANGED <<work_orders, clock, site_i, ws, cws, wo_df, cutoff_date, all_strikes,
                   sites_with_strikes, sites_with_data, emails>>

\* Faulty variant: the 7-day report is mailed as soon as it has been created.
LoadData14d_after_mailing ==
    /\ pc = "detailed_done"
    /\ emails' = Append(emails, "Weekly Lightning Strike Report")
    /\ strikes_df' \in SeqUpTo(MainStrikes, MaxStrikes)
    /\ pc' = "get_work_orders"
    /\ UNCHANGED <<sites_df, work_orders, radii, clock, site_i, ws, cws, wo_df,
                   cutoff_date, all_strikes, sites_with_strikes, sites_with_data>>

\* main.py 535-538: the 14-day strikes are loaded.
LoadData14d ==
    /\ pc = "detailed_done"
    /\ strikes_df' \in SeqUpTo(MainStrikes, MaxStrikes)
    /\ pc' = "get_work_orders"
    /\ UNCHANGED <<sites_df, work_orders, radii, clock, site_i, ws, cws, wo_df,
                   cutoff_date, all_strikes, sites_with_strikes, sites_with_data, emails>>

\* load_data raises (main.py 160-197: a connection or a query fails).
LoadDataFails ==
    /\ pc \in {"main", "detailed_done"}
    /\ pc' = "raised"
    /\ UNCHANGED <<inputs, clock, site_i, ws, cws, wo_df, cutoff_date, all_strikes,
                   sites_with_strikes, sites_with_data, emails>>

\* main.py 538-553 with get_work_orders, 326-337: the work orders are fetched
\* and create_correlation_report is called with radii [1.0].
GetWorkOrders ==
    /\ pc = "get_work_orders"
    /\ work_orders' \in SeqUpTo(MainOrders, MaxOrders)
    /\ radii' = <<1>>
    /\ pc' = "corr"
    /\ UNCHANGED <<sites_df, strikes_df, clock, site_i, ws, cws, wo_df, cutoff_date,
                   all_strikes, sites_with_strikes, sites_with_data, emails>>

\* get_work_orders logs and re-raises (main.py 335-337).
GetWorkOrdersFails ==
    /\ pc = "get_work_orders"
    /\ pc' = "raised"
    /\ UNCHANGED <<inputs, clock, site_i, ws, cws, wo_df, cutoff_date, all_strikes,
                   sites_with_strikes, sites_with_data, emails>>

\* wb.save raises (main.py 323, 494).
SaveFails ==
    /\ pc \in {"detailed_loop", "corr_loop"}
    /\ site_i > Len(sites_df)
    /\ pc' = "raised"
    /\ UNCHANGED <<inputs, clock, site_i, ws, cws, wo_df, cutoff_date, all_strikes,
                   sites_with_strikes, sites_with_data, emails>>

\* main.py 575-577 with emailReport, 84-146.
EmailDetailed ==
    /\ pc = "corr_done"
    /\ emails' = Append(emails, DetailedSubject)
    /\ pc' = "email_correlation"
    /\ UNCHANGED <<inputs, clock, site_i, ws, cws, wo_df, cutoff_date, all_strikes,
                   sites_with_strikes, sites_with_data>>

\* main.py 579-581 with emailReport, 84-146.
EmailCorrelation ==
    /\ pc = "email_correlation"
    /\ emails' = Append(emails, CorrelationSubject)
    /\ pc' = "main_done"
    /\ UNCHANGED <<inputs, clock, site_i, ws, cws, wo_df, cutoff_date, all_strikes,
                   sites_with_strikes, sites_with_data>>

\* emailReport logs and re-raises before anything is sent (main.py 137-146).
EmailFails ==
    /\ pc \in {"corr_done", "email_correlation"}
    /\ pc' = "raised"
    /\ UNCHANGED <<inputs, clock, site_i, ws, cws, wo_df, cutoff_date, all_strikes,
                   sites_with_strikes, sites_with_data, emails>>

\* The except clause of main (main.py 583-614): the failure notice is sent.
MainExcept ==
    /\ pc = "raised"
    /\ emails' = Append(emails, FailedSubject)
    /\ pc' = "main_failed"
    /\ UNCHANGED <<inputs, clock, site_i, ws, cws, wo_df, cutoff_date, all_strikes,
                   sites_with_strikes, sites_with_data>>

\* The except clause raises itself: its own SMTP connection or login fails
\* (main.py 590-595, outside the inner try), or the second sendmail in the
\* bare except does (608-614).  Nothing is sent and the process ends.
MainExceptRaises ==
    /\ pc = "raised"
    /\ pc' = "crashed"
    /\ UNCHANGED <<inputs, clock, site_i, ws, cws, wo_df, cutoff_date, all_strikes,
                   sites_with_strikes, sites_with_data, emails>>

Init ==
    /\ pc = "main"
    /\ sites_df = <<>>
    /\ strikes_df = <<>>
    /\ work_orders = <<>>
    /\ radii = <<>>
    /\ clock = Now0
    /\ site_i = 1
    /\ ws = NewWorkbook
    /\ cws = NewWorkbook
    /\ wo_df = <<>>
    /\ cutoff_date = 0
    /\ all_strikes = <<>>
    /\ sites_with_strikes = 0
    /\ sites_with_data = 0
    /\ emails = <<>>

Next ==
    \/ LoadData7d
    \/ DetailedBegin \/ DetailedSite \/ DetailedSave
    \/ LoadData14d
    \/ LoadDataFails
    \/ GetWorkOrders
    \/ GetWorkOrdersFails
    \/ CorrelationBegin \/ CorrelationSite \/ CorrelationSave
    \/ Tick
    \/ SaveFails
    \/ EmailDetailed
    \/ EmailCorrelation
    \/ EmailFails
    \/ MainExcept
    \/ MainExceptRaises

Spec == Init /\ [][Next]_vars

----------------------------------------------------------------------------
(* Claims about get_strikes_for_site, checked under SpecMatch *)

Count(s, x) == Cardinality({k \in 1..Len(s) : s[k] = x})

\* A coordinate pair that is numeric and within [-90, 90] x [-180, 180].
InRange(lat, lon) ==
    /\ lat.isnum /\ lon.isnum
    /\ lat.v >= -90 /\ lat.v <= 90
    /\ lon.v >= -180 /\ lon.v <= 180

Miles(site, strike) ==
    69 * (Abs(site.Latitude.v - strike.Latitude.v)
          + Abs(site.Longitude.v - strike.Longitude.v))

\* Row k of the strikes is a valid strike at most radii[1] miles from the site.
Qualifies(k) ==
    /\ InRange(strikes_df[k].Latitude, strikes_df[k].Longitude)
    /\ Miles(sites_df[1], strikes_df[k]) <= radii[1]

Returned ==
    /\ pc = "returned"
    /\ InRange(sites_df[1].Latitude, sites_df[1].Longitude)

\* C5: for a site with valid coordinates, get_strikes_for_site returns exactly
\* the strikes whose coordinates are valid and whose distance to the site is
\* <= radius: as many entries as there are such rows, each such row's entry as
\* often as the row occurs, nothing farther than the radius, and a strike at
\* the site's own coordinates for every radius >= 0.
C5_ExactlyWithinRadius ==
    Returned =>
        /\ Len(all_strikes) = Cardinality({k \in 1..Len(strikes_df) : Qualifies(k)})
        /\ \A k \in 1..Len(strikes_df) :
              Qualifies(k) =>
                  Count(all_strikes, StrikeDict(sites_df[1], strikes_df[k]))
                  = Cardinality({j \in 1..Len(strikes_df) :
                        /\ Qualifies(j)
                        /\ StrikeDict(sites_df[1], strikes_df[j])
                           = StrikeDict(sites_df[1], strikes_df[k])})
        /\ \A k \in 1..Len(all_strikes) : all_strikes[k].distance <= radii[1]
        /\ \A k \in 1..Len(strikes_df) :
              (/\ strikes_df[k].Latitude = sites_df[1].Latitude
               /\ strikes_df[k].Longitude = sites_df[1].Longitude)
              => \E j \in 1..Len(all_strikes) :
                    /\ all_strikes[j].distance = 0
                    /\ all_strikes[j].peakamp = strikes_df[k].PeakAmp

\* A call that returned a strike exactly on the radius and left out a valid
\* strike beyond it.
C5_Witness ==
    /\ Returned
    /\ radii[1] > 0
    /\ \E k \in 1..Len(all_strikes) : all_strikes[k].distance = radii[1]
    /\ \E k \in 1..Len(strikes_df) :
          /\ InRange(strikes_df[k].Latitude, strikes_df[k].Longitude)
          /\ Miles(sites_df[1], strikes_df[k]) > radii[1]

\* The entries of s whose timestamp denotes instant t, in order.
AtInstant(s, t) == SelectSeq(s, LAMBDA d : Instant(d.timestamp) = t)

\* C6: the sequence returned by get_strikes_for_site is non-decreasing in
\* timestamp, and strikes with equal timestamps keep their input order.
C6_SortedStable ==
    Returned =>
        /\ \A a, b \in 1..Len(all_strikes) :
              a < b => Instant(all_strikes[a].timestamp)
                       <= Instant(all_strikes[b].timestamp)
        /\ \A k \in 1..Len(all_strikes) :
              LET t == Instant(all_strikes[k].timestamp)
              IN AtInstant(all_strikes, t)
                 = AtInstant(strikes_in_radius(sites_df[1], strikes_df, radii[1]), t)

\* A call whose result holds two different strikes of one instant and that
\* had to reorder its input.
C6_Witness ==
    /\ Returned
    /\ all_strikes # strikes_in_radius(sites_df[1], strikes_df, radii[1])
    /\ \E a, b \in 1..Len(all_strikes) :
          /\ a < b
          /\ Instant(all_strikes[a].timestamp) = Instant(all_strikes[b].timestamp)
          /\ all_strikes[a] # all_strikes[b]

ValidRows(strikes) ==
    SelectSeq(strikes, LAMBDA s : InRange(s.Latitude, s.Longitude))

\* C7: a strike whose latitude is outside [-90, 90], whose longitude is outside
\* [-180, 180] or whose coordinates are not numeric is in no match list, and
\* the call returns what it returns for the input without the invalid strikes.
C7_ValidityGating ==
    Returned =>
        /\ \A k \in 1..Len(all_strikes) :
              /\ all_strikes[k].latitude >= -90 /\ all_strikes[k].latitude <= 90
              /\ all_strikes[k].longitude >= -180 /\ all_strikes[k].longitude <= 180
        /\ \A k \in 1..Len(strikes_df) :
              ~InRange(strikes_df[k].Latitude, strikes_df[k].Longitude)
              => \A j \in 1..Len(all_strikes) :
                    all_strikes[j].peakamp # strikes_df[k].PeakAmp
        /\ all_strikes
           = get_strikes_for_site(sites_df[1], ValidRows(strikes_df), radii[1])

\* A call whose input has an out-of-range strike and a non-numeric strike ahead
\* of a valid strike that is returned.
C7_Witness ==
    /\ Returned
    /\ Len(all_strikes) >= 1
    /\ \E a, b, c \in 1..Len(strikes_df) :
          /\ a < c /\ b < c
          /\ ~strikes_df[a].Longitude.isnum
          /\ strikes_df[b].Latitude.isnum /\ strikes_df[b].Latitude.v > 90
          /\ Qualifies(c)

----------------------------------------------------------------------------
(* Claims about create_detailed_report, checked under SpecDetailed *)

Ascending(r) == \A a, b \in 1..Len(r) : a < b => r[a] < r[b]

MinRadius == CHOOSE m \in Range(radii) : \A r \in Range(radii) : m <= r

\* The strike rows that are valid and within `radius` miles of a block's site.
WithinOfBlock(block, radius) ==
    {k \in 1..Len(strikes_df) :
        /\ InRange(strikes_df[k].Latitude, strikes_df[k].Longitude)
        /\ Miles(block, strikes_df[k]) <= radius}

\* C4: for an ascending radii list with more than one radius, a reported site
\* has, for every larger tier, a count equal to the number of events within
\* that radius and an incremental listing that holds no event listed at a
\* smaller radius.
C4_MonotonicTiering ==
    (pc = "detailed_done" /\ Len(radii) > 1 /\ Ascending(radii)) =>
        \A b \in 1..Len(ws.rows) :
            \A j \in 2..Len(radii) :
                /\ Len(ws.rows[b].counts) >= j
                /\ Len(ws.rows[b].listings) >= j
                /\ ws.rows[b].counts[j]
                   = Cardinality(WithinOfBlock(ws.rows[b], radii[j]))
                /\ \A i \in 1..(j - 1) :
                      Range(ws.rows[b].listings[j]) \cap Range(ws.rows[b].listings[i]) = {}

\* C10: the report is not written for an empty radii list, and what is written
\* is based on the smallest radius of the list: no listed strike is farther
\* away than it.
C10_MalformedRadiiRejected ==
    ws.saved =>
        /\ radii # <<>>
        /\ \A b \in 1..Len(ws.rows) :
              \A k \in 1..Len(ws.rows[b].listings[1]) :
                  ws.rows[b].listings[1][k].distance <= MinRadius

----------------------------------------------------------------------------
(* Claims about create_correlation_report, checked under SpecCorrelation *)

\* The sites whose iteration of the correlation loop is over.
Processed ==
    IF pc \in {"corr_loop", "corr_done"} THEN 1..(site_i - 1) ELSE {}

\* Strike row j is in the radius listing of site row k.
InListing(k, j) ==
    /\ InRange(sites_df[k].Latitude, sites_df[k].Longitude)
    /\ InRange(strikes_df[j].Latitude, strikes_df[j].Longitude)
    /\ Miles(sites_df[k], strikes_df[j]) <= radii[1]

\* Work order w carries the facility identifier of site row k and is not older
\* than the cutoff.
SiteOrder(k, w) ==
    /\ work_orders[w].facilityID = sites_df[k].facilityid
    /\ Instant(work_orders[w].createdDateTime) >= cutoff_date

\* Work order w was created at or after strike row j, both taken in UTC.
CreatedAtOrAfter(w, j) ==
    Instant(work_orders[w].createdDateTime) >= Instant(strikes_df[j].Timestamp)

\* The correlation worksheet lists strike row j under site row k.
ReportedMatched(k, j) ==
    \E b \in 1..Len(cws.rows) :
        /\ cws.rows[b].SiteName = sites_df[k].SiteName
        /\ \E m \in 1..Len(cws.rows[b].strikes) :
              cws.rows[b].strikes[m] = StrikeDict(sites_df[k], strikes_df[j])

\* C1: for every site and every strike in the site's radius listing, the
\* strike is reported as matched iff some work order with the site's facility
\* identifier that survived the lookback cutoff was created at or after the
\* strike, both compared in UTC.
C1_MatchedIffLaterOrder ==
    \A k \in Processed :
        \A j \in 1..Len(strikes_df) :
            InListing(k, j) =>
                (ReportedMatched(k, j)
                 <=> \E w \in 1..Len(work_orders) :
                        SiteOrder(k, w) /\ CreatedAtOrAfter(w, j))

\* A finished run in which a site has one strike that is matched and one, in
\* the same listing, that is not, although the site has a work order.
C1_Witness ==
    /\ pc = "corr_done"
    /\ \E k \in Processed :
          \E i, j \in 1..Len(strikes_df) :
              /\ InListing(k, i) /\ InListing(k, j)
              /\ ReportedMatched(k, i) /\ ~ReportedMatched(k, j)

\* The site row a block was written for.
SiteOfBlock(b) ==
    CHOOSE k \in 1..Len(sites_df) : sites_df[k].SiteName = cws.rows[b].SiteName

\* The earliest instant among the strikes listed in block b.
EarliestMatched(b) ==
    CHOOSE t \in {Instant(cws.rows[b].strikes[m].timestamp) :
                    m \in 1..Len(cws.rows[b].strikes)} :
        \A m \in 1..Len(cws.rows[b].strikes) :
            t <= Instant(cws.rows[b].strikes[m].timestamp)

Excluded(w) ==
    \E n \in 1..Len(work_orders[w].workOrderDesc) :
        work_orders[w].workOrderDesc[n] = "Could not send Truck Unloading tags to "

\* The work orders that belong on display in block b, in input order.
ToDisplay(b) ==
    SelectSeq([w \in 1..Len(work_orders) |-> w], LAMBDA w :
        /\ SiteOrder(SiteOfBlock(b), w)
        /\ Instant(work_orders[w].createdDateTime) >= EarliestMatched(b)
        /\ ~Excluded(w))

\* C2: for every emitted site the displayed work orders are exactly the site's
\* lookback-filtered work orders created at or after the earliest matched
\* strike, minus the excluded ones; so an order created at or after any matched
\* strike of the site is displayed unless it is excluded.
C2_DisplayedSinceEarliest ==
    \A b \in 1..Len(cws.rows) :
        /\ Len(cws.rows[b].orders) = Len(ToDisplay(b))
        /\ \A n \in 1..Len(ToDisplay(b)) :
              /\ cws.rows[b].orders[n].woNumber = work_orders[ToDisplay(b)[n]].woNumber
              /\ Instant(cws.rows[b].orders[n].created_time)
                 = Instant(work_orders[ToDisplay(b)[n]].createdDateTime)
        /\ \A m \in 1..Len(cws.rows[b].strikes) :
              \A w \in 1..Len(work_orders) :
                  (/\ SiteOrder(SiteOfBlock(b), w)
                   /\ Instant(work_orders[w].createdDateTime)
                      >= Instant(cws.rows[b].strikes[m].timestamp)
                   /\ ~Excluded(w))
                  => \E n \in 1..Len(cws.rows[b].orders) :
                        cws.rows[b].orders[n].woNumber = work_orders[w].woNumber

\* A block with two matched strikes of different instants that displays a work
\* order created before the later of them.
C2_Witness ==
    \E b \in 1..Len(cws.rows) :
        \E m \in 1..Len(cws.rows[b].strikes) :
            \E n \in 1..Len(cws.rows[b].orders) :
                /\ Instant(cws.rows[b].strikes[m].timestamp) > EarliestMatched(b)
                /\ Instant(cws.rows[b].orders[n].created_time)
                   < Instant(cws.rows[b].strikes[m].timestamp)

\* C3: every site in the correlation worksheet has at least one matched strike
\* and at least one displayed work order.
C3_NoEmptyLists ==
    \A b \in 1..Len(cws.rows) :
        /\ Len(cws.rows[b].strikes) >= 1
        /\ Len(cws.rows[b].orders) >= 1

\* Site row k has a strike in its listing and a work order of its facility,
\* not older than the cutoff, created at or after that strike.
HasMatch(k) ==
    \E j \in 1..Len(strikes_df) :
        /\ InListing(k, j)
        /\ \E w \in 1..Len(work_orders) : SiteOrder(k, w) /\ CreatedAtOrAfter(w, j)

\* Every site handled so far was correlated against the work orders not older
\* than cutoff_date: it is in the worksheet iff it has a match among them, its
\* displayed orders are not older than the cutoff, and each listed strike has
\* a work order not older than the cutoff behind it.
CorrelatedAgainstCutoff ==
    /\ \A k \in Processed :
          HasMatch(k) <=> \E b \in 1..Len(cws.rows) :
                             cws.rows[b].SiteName = sites_df[k].SiteName
    /\ \A b \in 1..Len(cws.rows) :
          /\ \A n \in 1..Len(cws.rows[b].orders) :
                Instant(cws.rows[b].orders[n].created_time) >= cutoff_date
          /\ \A m \in 1..Len(cws.rows[b].strikes) :
                \E w \in 1..Len(work_orders) :
                    /\ SiteOrder(SiteOfBlock(b), w)
                    /\ Instant(work_orders[w].createdDateTime)
                       >= Instant(cws.rows[b].strikes[m].timestamp)

\* C9: the lookback window is applied once, before the per-site loop, with one
\* reading of the clock: the cutoff is the clock at that moment minus 14 days,
\* it and the filtered work orders stay as they are for the rest of the run,
\* and every site is correlated against that one cutoff, so that no older work
\* order is matched or displayed for any site.
C9_SingleCutoff ==
    /\ [][(pc = "corr" /\ pc' = "corr_loop")
            => /\ cutoff_date' = clock - 14 * 24
               /\ \A n \in 1..Len(wo_df') :
                     Instant(wo_df'[n].createdDateTime) >= clock - 14 * 24]_vars
    /\ [][pc = "corr_loop" => (cutoff_date' = cutoff_date /\ wo_df' = wo_df)]_vars
    /\ []CorrelatedAgainstCutoff

\* A finished run with two sites in the worksheet, the clock having advanced
\* after the cutoff was taken, that displays a work order created exactly at
\* the cutoff.
C9_Witness ==
    /\ pc = "corr_done"
    /\ Len(cws.rows) = 2
    /\ clock > cutoff_date + 14 * 24
    /\ \E n \in 1..Len(cws.rows[2].orders) :
          Instant(cws.rows[2].orders[n].created_time) = cutoff_date

----------------------------------------------------------------------------
(* Claims about a whole run, checked under Spec *)

InReport(sheet, k) ==
    \E b \in 1..Len(sheet.rows) : sheet.rows[b].SiteName = sites_df[k].SiteName

\* C8: for a site whose own coordinate is out of range or not numeric,
\* get_strikes_for_site returns the empty sequence whatever the strikes and the
\* radius, the site is in neither report, and the other sites of the run are
\* still processed: each valid site with a strike in its listing is in the
\* detailed report, each one with a match in the correlation report.
C8_InvalidSiteSkipped ==
    /\ \A k \in 1..Len(sites_df) :
          ~InRange(sites_df[k].Latitude, sites_df[k].Longitude) =>
              /\ \A r \in MatchRadii :
                    get_strikes_for_site(sites_df[k], strikes_df, r) = <<>>
              /\ ~InReport(ws, k)
              /\ ~InReport(cws, k)
    /\ (pc \in {"detailed_loop", "corr_loop"} /\ site_i > 1
        /\ ~InRange(sites_df[site_i - 1].Latitude, sites_df[site_i - 1].Longitude))
       => all_strikes = <<>>
    /\ pc = "detailed_done" =>
          \A k \in 1..Len(sites_df) :
              (\E j \in 1..Len(strikes_df) : InListing(k, j)) => InReport(ws, k)
    /\ pc = "corr_done" =>
          \A k \in 1..Len(sites_df) : HasMatch(k) => InReport(cws, k)

\* A finished run whose first site is invalid, with a strike at that site's
\* own coordinates, and whose second site is in both reports.
C8_Witness ==
    /\ pc = "corr_done"
    /\ Len(sites_df) = 2
    /\ ~InRange(sites_df[1].Latitude, sites_df[1].Longitude)
    /\ \E j \in 1..Len(strikes_df) :
          /\ strikes_df[j].Latitude = sites_df[1].Latitude
          /\ strikes_df[j].Longitude = sites_df[1].Longitude
    /\ InReport(ws, 2)
    /\ InReport(cws, 2)

----------------------------------------------------------------------------
(* Claims about empty input *)

EmptyInput == sites_df = <<>> \/ strikes_df = <<>>

\* C11: with zero sites or zero strikes supplied (and a radius to work with),
\* create_detailed_report and create_correlation_report complete normally and
\* produce an empty result set: nothing is raised, no site is reported and the
\* value returned is 0.
C11_EmptyInputNotAnError ==
    (EmptyInput /\ radii # <<>>) =>
        /\ pc # "raised"
        /\ pc = "detailed_done" =>
              (ws.saved /\ ws.rows = <<>> /\ sites_with_strikes = 0)
        /\ pc = "corr_done" =>
              (cws.saved /\ cws.rows = <<>> /\ sites_with_data = 0)

----------------------------------------------------------------------------
(* Claims about the shape of a correlation block, checked under SpecCorrelation *)

\* The strike rows in the radius listing of the site of block b.
ListingOfBlock(b) == {j \in 1..Len(strikes_df) : InListing(SiteOfBlock(b), j)}

\* The instant of the first strike of the time-ordered listing of block b's site.
FirstListed(b) ==
    CHOOSE t \in {Instant(strikes_df[j].Timestamp) : j \in ListingOfBlock(b)} :
        \A j \in ListingOfBlock(b) : t <= Instant(strikes_df[j].Timestamp)

\* The work orders of block b's site, not older than the cutoff, created at or
\* after instant t and not excluded, in input order.
OrdersSince(b, t) ==
    SelectSeq([w \in 1..Len(work_orders) |-> w], LAMBDA w :
        /\ SiteOrder(SiteOfBlock(b), w)
        /\ Instant(work_orders[w].createdDateTime) >= t
        /\ ~Excluded(w))

\* C12: within one site the matched strikes are a time-prefix of the site's
\* time-ordered listing: with a matched strike every listed strike of an
\* earlier or equal timestamp is matched, the block lists the first strikes of
\* the listing, the earliest matched timestamp is that of the first listed
\* strike, and the displayed orders are all the site's lookback-filtered
\* orders created at or after that first strike, minus the excluded ones.
C12_MatchedIsTimePrefix ==
    \A b \in 1..Len(cws.rows) :
        LET k == SiteOfBlock(b)
            listing == get_strikes_for_site(sites_df[k], strikes_df, radii[1])
        IN /\ \A i, j \in ListingOfBlock(b) :
                 (/\ ReportedMatched(k, j)
                  /\ Instant(strikes_df[i].Timestamp) <= Instant(strikes_df[j].Timestamp))
                 => ReportedMatched(k, i)
           /\ Len(cws.rows[b].strikes) <= Len(listing)
           /\ cws.rows[b].strikes = SubSeq(listing, 1, Len(cws.rows[b].strikes))
           /\ EarliestMatched(b) = FirstListed(b)
           /\ Len(cws.rows[b].orders) = Len(OrdersSince(b, FirstListed(b)))
           /\ \A n \in 1..Len(cws.rows[b].orders) :
                 cws.rows[b].orders[n].woNumber
                 = work_orders[OrdersSince(b, FirstListed(b))[n]].woNumber

\* A block whose site has a later strike in its listing that is not matched,
\* and that displays a work order.
C12_Witness ==
    \E b \in 1..Len(cws.rows) :
        /\ Len(cws.rows[b].orders) >= 1
        /\ \E j \in ListingOfBlock(b) :
              /\ ~ReportedMatched(SiteOfBlock(b), j)
              /\ Instant(strikes_df[j].Timestamp) > FirstListed(b)

----------------------------------------------------------------------------
(* Claims about the emails of a run, checked under Spec *)

\* The report emails sent so far, in the order they were sent.
ReportEmails ==
    SelectSeq(emails, LAMBDA e :
        e \in {"Weekly Lightning Strike Report",
               "Weekly Lightning Strike and Work Order Correlation Report"})

\* The run has left the try block of main through an exception.
Failed == pc \in {"raised", "main_failed", "crashed"}

EmailsInOrder ==
    /\ ReportEmails # <<>> => (ws.saved /\ cws.saved)
    /\ ReportEmails \in
         { <<>>,
           <<"Weekly Lightning Strike Report">>,
           <<"Weekly Lightning Strike Report",
             "Weekly Lightning Strike and Work Order Correlation Report">> }
    /\ (Failed /\ ~(ws.saved /\ cws.saved)) => ReportEmails = <<>>
    /\ pc = "main_failed" => emails[Len(emails)] = "Script - Failed"

\* C13: in main a report email is sent only after both reports have been
\* created, the 7-day report email before the correlation report email; when
\* data loading, a report creation or the work-order fetch fails, no report
\* email is sent, and from the except clause on the run only sends the failure
\* notice or ends.
C13_EmailsAfterBothReports ==
    /\ []EmailsInOrder
    /\ [][pc = "raised" =>
            /\ pc' \in {"main_failed", "crashed"}
            /\ ReportEmails' = ReportEmails]_vars
    /\ [][(pc \in {"main", "detailed", "detailed_loop", "detailed_done",
                   "get_work_orders", "corr", "corr_loop"}
           /\ ~(pc' \in {"main", "detailed", "detailed_loop", "detailed_done",
                         "get_work_orders", "corr", "corr_loop", "corr_done"}))
          => (pc' = "raised" /\ emails' = <<>>)]_vars

\* A run in which the detailed report was created, the correlation report was
\* not, and the only email sent is the failure notice.
C13_Witness ==
    /\ pc = "main_failed"
    /\ ws.saved
    /\ ~cws.saved
    /\ Len(ws.rows) >= 1
    /\ emails = <<"Script - Failed">>

====
